---- MODULE Spec2Model ----
(***************************************************************************)
(* Model of the Screen facade of adb-helper: getScreenHierarchy,           *)
(* findElement and the single-slot caches they read and write              *)
(* (CacheManagement).  Each exposed operation is an async function: it     *)
(* runs without interruption up to an await, and other calls may run       *)
(* while it is suspended.                                                  *)
(***************************************************************************)
EXTENDS Integers, Sequences, FiniteSets, TLC

VARIABLES
    cachedScreenHierarchy,  \* CacheManagement.cachedScreenHierarchy: Null or Some(hierarchy)
    cachedElement,          \* CacheManagement.cachedElement: Null or Some(record)
    cachedScreenResolution, \* CacheManagement.cachedScreenResolution: Null or Some(pair)
    screen,                 \* what `uiautomator dump` would print now (device state)
    wmSize,                 \* what `wm size` would print now (device state)
    calls,                  \* per caller: the call it has made last and where it stands
    uiCachedElement,        \* cachedElement of the UIAttributes object: Null or Some(record)
    query,                  \* the last attribute-flag query made and its result
    other                   \* a second Screen object (another device): its slots, its call

\* The state of the Screen object and its device, and that of the objects beside it.
beside == <<uiCachedElement, query, other>>
vars == <<cachedScreenHierarchy, cachedElement, cachedScreenResolution, screen, wmSize, calls,
          uiCachedElement, query, other>>

(***************************************************************************)
(* JavaScript values.  null/undefined is Null; an optional that is present *)
(* is Some(v).  An attribute value is a pair <<type, token>>, so that the  *)
(* boolean true and the string "true" are different values under ===.      *)
(***************************************************************************)
Null == <<>>
Some(v) == <<v>>

Bool(t) == <<"bool", t>>
Str(t) == <<"str", t>>
TRUEV == Bool("true")
FALSEV == Bool("false")

\* ToBoolean of an attribute value; `absent` stands for undefined.
Truthy(present, v) == present /\ v /= FALSEV /\ v /= Str("")

(***************************************************************************)
(* Markup documents.  A node has string attributes (possibly none) and     *)
(* child nodes; xml2js gives a node the `$` member only when it has at     *)
(* least one attribute, and the `node` member only when it has children.   *)
(***************************************************************************)
NoAttrs == [k \in {} |-> ""]
Node(attrs, kids) == [attrs |-> attrs, kids |-> kids]

Btn1 == Node([resourceId |-> "btn1", clickable |-> "true", text |-> ""], <<>>)
Btn2 == Node([resourceId |-> "btn2", clickable |-> "false"], <<>>)
Lbl == Node([text |-> "True", clickable |-> "true", checked |-> "1"], <<>>)
Frame == Node([resourceId |-> "frame", clickable |-> "false"], <<Lbl, Btn2>>)
Group == Node(NoAttrs, <<Btn1>>)

\* A dump: the text `uiautomator dump` printed, as the document it denotes.
Xml(rootName, root) == [wellFormed |-> TRUE, rootName |-> rootName, root |-> root]
Garbage == [wellFormed |-> FALSE, rootName |-> "", root |-> Node(NoAttrs, <<>>)]

ScreenA == Xml("hierarchy", Node(NoAttrs, <<Btn1, Btn2>>))
ScreenB == Xml("hierarchy", Node([rotation |-> "0"], <<Frame, Group>>))
ScreenC == Xml("hierarchy", Node(NoAttrs, <<>>))
ScreenD == Xml("error", Node(NoAttrs, <<>>))

\* The screens the device shows while callers race, and with them the dump
\* whose root is not <hierarchy>, for a caller that fetches alone.
Screens == {ScreenA, ScreenB, ScreenC, Garbage}
AllScreens == Screens \cup {ScreenD}

(***************************************************************************)
(* Every dump of at most MaxNodes nodes, the root included.  A shape is    *)
(* the sequence of the shapes of a node's children; a node is named by its *)
(* path, the child indices leading to it from the root.  A node either has *)
(* no attribute or has an `id`, its path in print, and a `checked` token.  *)
(***************************************************************************)
MaxNodes == 4
Tokens == <<"true", "false", "True", "1", "">>

\* The forests of m nodes in all: a first tree of k nodes, then a forest of
\* the m - k others.
RECURSIVE Forests(_)
Forests(m) ==
    IF m = 0 THEN {<<>>}
    ELSE UNION {{<<first>> \o rest : first \in Forests(k - 1), rest \in Forests(m - k)} :
                k \in 1..m}
Shapes == UNION {Forests(n - 1) : n \in 1..MaxNodes}

RECURSIVE PathsOf(_)
PathsOf(shape) ==
    {<<>>} \cup UNION {{<<i>> \o path : path \in PathsOf(shape[i])} : i \in DOMAIN shape}

RECURSIVE PathSum(_)
PathSum(path) == IF path = <<>> THEN 0 ELSE Head(path) + 1 + PathSum(Tail(path))

\* The tokens go round the nodes, starting at `turn`.
TokenAt(path, turn) == Tokens[((turn + PathSum(path)) % Len(Tokens)) + 1]

RECURSIVE Tree(_, _, _, _)
Tree(shape, path, bare, turn) ==
    Node(IF path \in bare THEN NoAttrs
         ELSE [id |-> ToString(path), checked |-> TokenAt(path, turn)],
         [i \in DOMAIN shape |-> Tree(shape[i], Append(path, i), bare, turn)])

Dumps ==
    UNION {{Xml("hierarchy", Tree(shape, <<>>, bare, turn)) :
               bare \in SUBSET PathsOf(shape), turn \in 0..(Len(Tokens) - 1)} :
           shape \in Shapes}


(***************************************************************************)
(* Tree flattener (getScreenHierarchy.extractNodes) and the xml2js parse.  *)
(***************************************************************************)
\* Mutant: the two literals are recognised in any case.
Coerce_AnyCase(value) ==
    IF value \in {"false", "False"} THEN FALSEV
    ELSE IF value \in {"true", "True"} THEN TRUEV
    ELSE Str(value)

\* value === "false" ? false : value === "true" ? true : value
Coerce(value) ==
    IF value = "false" THEN FALSEV
    ELSE IF value = "true" THEN TRUEV
    ELSE Str(value)

\* The record built from node['$'].
ElementOf(node) == [key \in DOMAIN node.attrs |-> Coerce(node.attrs[key])]

RECURSIVE extractNodes(_)
RECURSIVE extractChildren(_, _)

\* for (const childNode of node.node) extractNodes(childNode), from child i on.
extractChildren(kids, i) ==
    IF i > Len(kids) THEN <<>>
    ELSE extractNodes(kids[i]) \o extractChildren(kids, i + 1)

\* Mutant: a node's record is pushed after those of its children.
extractNodes_PostOrder(node) ==
    extractChildren(node.kids, 1)
        \o (IF DOMAIN node.attrs /= {} THEN <<ElementOf(node)>> ELSE <<>>)

\* The records extractNodes(node) pushes onto `elements`, in push order.
extractNodes(node) ==
    (IF DOMAIN node.attrs /= {} THEN <<ElementOf(node)>> ELSE <<>>)
        \o extractChildren(node.kids, 1)

\* Outcome of `await parseStringPromise(xml)` followed by
\* extractNodes(hierarchyJSON.hierarchy): the flattened records or the error.
Failure(detail) == [kind |-> "error", val |-> <<detail>>]

Flatten(xml) ==
    IF ~xml.wellFormed THEN Failure("ParseError")
    ELSE IF xml.rootName /= "hierarchy" THEN Failure("TypeError")
    ELSE [kind |-> "hierarchy", val |-> extractNodes(xml.root)]

(***************************************************************************)
(* Element matcher (findElement).                                          *)
(***************************************************************************)
Undefined == <<"undefined", "">>

\* element[key]
Get(element, key) == IF key \in DOMAIN element THEN element[key] ELSE Undefined

\* Mutant: values are compared by their text, whatever their type.
isMatching_ByText(element, conditions) ==
    \A key \in DOMAIN conditions : Get(element, key)[2] = conditions[key][2]

\* Mutant: a condition without keys matches no record.
isMatching_NeedsKey(element, conditions) ==
    /\ DOMAIN conditions /= {}
    /\ \A key \in DOMAIN conditions : Get(element, key) = conditions[key]

\* for each [key, value] of conditions: element[key] !== value => false
isMatching(element, conditions) ==
    \A key \in DOMAIN conditions : Get(element, key) = conditions[key]

\* if (attributes) { forEach attr: if (element[attr]) filtered[attr] = element[attr] }
applyAttributesFilter(element, attributes) ==
    IF attributes = Null THEN element
    ELSE LET wanted == {attributes[1][i] : i \in DOMAIN attributes[1]}
             kept == {attr \in wanted :
                        Truthy(attr \in DOMAIN element, Get(element, attr))}
         IN [attr \in kept |-> element[attr]]

\* elements.filter(isMatching)
Matched(elements, conditions) ==
    SelectSeq(elements, LAMBDA element : isMatching(element, conditions))

\* Mutant: a single match is returned without being stored.
FindOutcome_SingleNotCached(elements, conditions, attributes, cache) ==
    LET matchedElements == Matched(elements, conditions)
        result == [i \in DOMAIN matchedElements |->
                     applyAttributesFilter(matchedElements[i], attributes)]
    IN  IF Len(matchedElements) = 0
        THEN [result |-> [kind |-> "null", val |-> <<>>], cachedElement |-> cache]
        ELSE IF Len(result) = 1
        THEN [result |-> [kind |-> "element", val |-> result[1]], cachedElement |-> cache]
        ELSE [result |-> [kind |-> "elements", val |-> result], cachedElement |-> cache]

\* Mutant: the first of several matches is stored and returned.
FindOutcome_FirstOfMany(elements, conditions, attributes, cache) ==
    LET matchedElements == Matched(elements, conditions)
        result == [i \in DOMAIN matchedElements |->
                     applyAttributesFilter(matchedElements[i], attributes)]
    IN  IF Len(matchedElements) = 0
        THEN [result |-> [kind |-> "null", val |-> <<>>], cachedElement |-> cache]
        ELSE [result |-> [kind |-> "element", val |-> result[1]],
              cachedElement |-> Some(result[1])]

\* Mutant: no match is reported as a failure.
FindOutcome_NoMatchFails(elements, conditions, attributes, cache) ==
    LET matchedElements == Matched(elements, conditions)
        result == [i \in DOMAIN matchedElements |->
                     applyAttributesFilter(matchedElements[i], attributes)]
    IN  IF Len(matchedElements) = 0
        THEN [result |-> [kind |-> "error", val |-> <<"NoMatch">>], cachedElement |-> cache]
        ELSE IF Len(result) = 1
        THEN [result |-> [kind |-> "element", val |-> result[1]],
              cachedElement |-> Some(result[1])]
        ELSE [result |-> [kind |-> "elements", val |-> result], cachedElement |-> cache]

\* Mutant: the single match is stored in full, whatever was projected.
FindOutcome_CachesFullRecord(elements, conditions, attributes, cache) ==
    LET matchedElements == Matched(elements, conditions)
        result == [i \in DOMAIN matchedElements |->
                     applyAttributesFilter(matchedElements[i], attributes)]
    IN  IF Len(matchedElements) = 0
        THEN [result |-> [kind |-> "null", val |-> <<>>], cachedElement |-> cache]
        ELSE IF Len(result) = 1
        THEN [result |-> [kind |-> "element", val |-> result[1]],
              cachedElement |-> Some(matchedElements[1])]
        ELSE [result |-> [kind |-> "elements", val |-> result], cachedElement |-> cache]

\* What findElement returns and stores once it holds `elements`.
FindOutcome(elements, conditions, attributes, cache) ==
    LET matchedElements == Matched(elements, conditions)
        result == [i \in DOMAIN matchedElements |->
                     applyAttributesFilter(matchedElements[i], attributes)]
    IN  IF Len(matchedElements) = 0
        THEN [result |-> [kind |-> "null", val |-> <<>>], cachedElement |-> cache]
        ELSE IF Len(result) = 1
        THEN [result |-> [kind |-> "element", val |-> result[1]],
              cachedElement |-> Some(result[1])]
        ELSE [result |-> [kind |-> "elements", val |-> result], cachedElement |-> cache]

(***************************************************************************)
(* Cache tests.  Both slots hold objects (an array, a record), which are   *)
(* truthy even when empty, so the test fails only on null.                 *)
(***************************************************************************)
\* Mutant: the cache test never succeeds (every call fetches).
HierarchyCacheHit_Never(cache) == FALSE

\* if (this.cachedScreenHierarchyValue)
HierarchyCacheHit(cache) == cache /= Null

\* Mutant: an empty record counts as no cached element.
ElementCacheHit_NonEmpty(cache) == cache /= Null /\ DOMAIN cache[1] /= {}

\* if (this.cachedElementValue)
ElementCacheHit(cache) == cache /= Null

\* Mutant: an empty hierarchy argument counts as none.
HierarchyGiven_NonEmpty(screenHierarchyJSON) ==
    screenHierarchyJSON /= Null /\ Len(screenHierarchyJSON[1]) > 0

\* screenHierarchyJSON || ...: an array is truthy even when empty.
HierarchyGiven(screenHierarchyJSON) == screenHierarchyJSON /= Null

\* if (outputFilePath)
PathGiven(path) == path /= Null /\ path[1] /= ""

(***************************************************************************)
(* The size text and its parse.  A text is a sequence of characters.       *)
(***************************************************************************)
DigitChars == <<"0", "1", "2", "3", "4", "5", "6", "7", "8", "9">>
IsDigit(ch) == \E d \in DOMAIN DigitChars : DigitChars[d] = ch
DigitValue(ch) == (CHOOSE d \in DOMAIN DigitChars : DigitChars[d] = ch) - 1
WhiteSpace == {" ", "\n"}
Radix == 10

\* stdout.trim()
Trim(text) ==
    LET kept == {i \in DOMAIN text : text[i] \notin WhiteSpace}
    IN  IF kept = {} THEN <<>>
        ELSE SubSeq(text, CHOOSE i \in kept : \A k \in kept : i <= k,
                          CHOOSE j \in kept : \A k \in kept : k <= j)

\* Where the run of digits that starts at position i ends.
RunEnd(text, i) ==
    CHOOSE j \in i..Len(text) :
        /\ \A k \in i..j : IsDigit(text[k])
        /\ j = Len(text) \/ ~IsDigit(text[j + 1])

\* /(\d+)x(\d+)/ matches with its first group starting at position i.
MatchesAt(text, i) ==
    /\ IsDigit(text[i])
    /\ LET j == RunEnd(text, i)
       IN  j + 2 <= Len(text) /\ text[j + 1] = "x" /\ IsDigit(text[j + 2])

\* resolutionString.match(/(\d+)x(\d+)/): the leftmost match, both groups
\* greedy; Null when there is none, else Some(<<group 1, group 2>>).
match(text) ==
    LET starts == {i \in DOMAIN text : MatchesAt(text, i)}
    IN  IF starts = {} THEN Null
        ELSE LET i == CHOOSE m \in starts : \A k \in starts : m <= k
                 j == RunEnd(text, i)
             IN  Some(<<SubSeq(text, i, j), SubSeq(text, j + 2, RunEnd(text, j + 2))>>)

\* parseInt(string, radix) of a non-empty run of digits.
RECURSIVE parseInt(_, _)
parseInt(string, radix) ==
    IF string = <<>> THEN 0
    ELSE parseInt(SubSeq(string, 1, Len(string) - 1), radix) * radix
            + DigitValue(string[Len(string)])

\* Mutant: the cached resolution is never used.
ResolutionCacheHit_Never(cache) == FALSE

\* if (this.cachedScreenResolution)
ResolutionCacheHit(cache) == cache /= Null

\* Texts the device answers `wm size` with.
SizePlain == <<"s", "i", "z", "e", ":", " ", "4", "8", "x", "8", "0", "\n">>
SizeOverride == <<"7", "2", "x", "9", "6", "\n", "3", "6", "x", "4", "8">>
SizeLateMatch == <<"1", "2", "x", " ", "3", "4", "x", "5">>
SizeNoPattern == <<"1", "2", " ", "x", "3", "4">>
SizeEmpty == <<"\n">>
SizeZero == <<"s", "i", "z", "e", ":", " ", "0", "x", "0">>
SizeLeadingZeros == <<"0", "8", "x", "0", "0">>
SizeStrings ==
    {SizePlain, SizeOverride, SizeLateMatch, SizeNoPattern, SizeEmpty, SizeZero,
     SizeLeadingZeros}


(***************************************************************************)
(* Inputs the callers draw from.                                           *)
(***************************************************************************)
Callers == {1, 2}
OutputFormats == {"JSON", "XML"}
OutputFilePaths == {Null, Some("out")}

Conditions ==
    { <<>>,
      [resourceId |-> Str("btn1")],
      [focused |-> FALSEV] }

\* A hierarchy a caller passes to findElement itself.
GivenA == << [resourceId |-> Str("btn1"), clickable |-> TRUEV, text |-> Str("")],
             [resourceId |-> Str("btn2"), clickable |-> FALSEV] >>
SuppliedHierarchies == {Null, Some(GivenA)}

AttributeLists == {Null, Some(<<"clickable", "text">>)}

\* The matcher's inputs when one caller exercises findElement alone: every
\* condition of at most MaxConditionKeys keys, without a projection; and a
\* few conditions with every projection.
MaxConditionKeys == 2
ConditionKeys == {"resourceId", "clickable", "focused"}
ConditionValues == {TRUEV, FALSEV, Str("true"), Str("frame")}
AllConditions ==
    UNION {[keys -> ConditionValues] :
             keys \in {ks \in SUBSET ConditionKeys : Cardinality(ks) <= MaxConditionKeys}}

GivenB == << [resourceId |-> Str("frame"), clickable |-> Str("true")],
             [text |-> Str("true"), clickable |-> TRUEV, checked |-> Str("1")],
             [resourceId |-> Str("btn2"), clickable |-> FALSEV, text |-> Str("")] >>
FindHierarchies == {Null, Some(GivenB), Some(<<>>)}
FindAttributeLists ==
    {Some(<<>>), Some(<<"clickable", "text">>), Some(<<"resourceId", "focused">>)}
GivenOne == << [text |-> Str("true"), clickable |-> TRUEV, checked |-> Str("1")] >>
FindInputs ==
    (AllConditions \X {Null, Some(GivenB)} \X {Null})
        \cup ({<<>>} \X {Some(<<>>), Some(GivenOne)} \X {Null})
        \cup ((Conditions \cup {[resourceId |-> Str("btn2")]})
                 \X FindHierarchies \X FindAttributeLists)

(***************************************************************************)
(* A caller's call: its arguments, the await it is suspended at (pc), the  *)
(* locals that survive the await, the transport commands it has issued,    *)
(* what it has written with fs.writeFileSync and its outcome.              *)
(***************************************************************************)
NoResult == [kind |-> "none", val |-> <<>>]

NoQuery == [attribute |-> "", element |-> Null, result |-> "none"]

NoCall ==
    [op |-> "none", pc |-> "idle",
     outputFormat |-> "JSON", outputFilePath |-> Null,
     conditions |-> <<>>, screenHierarchyJSON |-> Null, attributes |-> Null,
     hierarchyXML |-> Null, elements |-> Null,
     cmds |-> 0, wrote |-> "nothing", rejected |-> FALSE, result |-> NoResult]

\* A Screen object just constructed (CacheManagement's field initialisers).
NoOther ==
    [cachedScreenHierarchy |-> Null, cachedElement |-> Null,
     cachedScreenResolution |-> Null, call |-> NoCall]

Settled(call) == call.pc \in {"idle", "returned", "failed"}

Returned(call, result) ==
    [call EXCEPT !.pc = "returned", !.result = result,
                 !.hierarchyXML = Null, !.elements = Null]

Thrown(call, failure) ==
    [call EXCEPT !.pc = "failed", !.result = failure,
                 !.hierarchyXML = Null, !.elements = Null]

\* if (outputFilePath) fs.writeFileSync(outputFilePath, <data of this kind>)
Written(call, kind) ==
    IF PathGiven(call.outputFilePath) THEN [call EXCEPT !.wrote = kind] ELSE call

Init ==
    /\ cachedScreenHierarchy = Null
    /\ cachedElement = Null
    /\ cachedScreenResolution = Null
    /\ screen \in Screens
    /\ wmSize = SizePlain
    /\ calls = [c \in Callers |-> NoCall]
    /\ uiCachedElement = Null
    /\ query = NoQuery
    /\ other = NoOther

(***************************************************************************)
(* getScreenHierarchy up to its first await: return the cached hierarchy,  *)
(* or send the dump command (execCommand -> ADBShell -> exec).             *)
(***************************************************************************)
\* Mutant: the output format is looked at before the cache.
EnterGetScreenHierarchy_FormatFirst(call, cache) ==
    IF call.op = "getScreenHierarchy" /\ call.outputFormat = "XML"
    THEN [call EXCEPT !.pc = "awaitExec", !.cmds = call.cmds + 1]
    ELSE IF HierarchyCacheHit(cache)
    THEN IF call.op = "findElement"
         THEN [call EXCEPT !.pc = "awaitHierarchy", !.elements = Some(cache[1])]
         ELSE Returned(call, [kind |-> "hierarchy", val |-> cache[1]])
    ELSE [call EXCEPT !.pc = "awaitExec", !.cmds = call.cmds + 1]

EnterGetScreenHierarchy(call, cache) ==
    IF HierarchyCacheHit(cache)
    THEN IF call.op = "findElement"
         THEN [call EXCEPT !.pc = "awaitHierarchy", !.elements = Some(cache[1])]
         ELSE Returned(call, [kind |-> "hierarchy", val |-> cache[1]])
    ELSE [call EXCEPT !.pc = "awaitExec", !.cmds = call.cmds + 1]

getScreenHierarchy(c, outputFormat, outputFilePath) ==
    /\ Settled(calls[c])
    /\ LET call == [NoCall EXCEPT !.op = "getScreenHierarchy",
                                  !.outputFormat = outputFormat,
                                  !.outputFilePath = outputFilePath]
       IN  calls' = [calls EXCEPT ![c] = EnterGetScreenHierarchy(call, cachedScreenHierarchy)]
    /\ UNCHANGED <<cachedScreenHierarchy, cachedElement, screen>>
    /\ UNCHANGED <<cachedScreenResolution, wmSize>>
    /\ UNCHANGED beside

(***************************************************************************)
(* findElement up to its first await.                                      *)
(***************************************************************************)
findElement(c, conditions, screenHierarchyJSON, attributes) ==
    /\ Settled(calls[c])
    /\ LET call == [NoCall EXCEPT !.op = "findElement",
                                  !.conditions = conditions,
                                  !.screenHierarchyJSON = screenHierarchyJSON,
                                  !.attributes = attributes]
       IN  IF ElementCacheHit(cachedElement)
           THEN /\ calls' = [calls EXCEPT ![c] =
                               Returned(call, [kind |-> "element", val |-> cachedElement[1]])]
                /\ UNCHANGED cachedElement
           ELSE IF HierarchyGiven(screenHierarchyJSON)
           THEN LET out == FindOutcome(screenHierarchyJSON[1], conditions, attributes,
                                       cachedElement)
                IN  /\ calls' = [calls EXCEPT ![c] = Returned(call, out.result)]
                    /\ cachedElement' = out.cachedElement
           ELSE /\ calls' = [calls EXCEPT ![c] =
                               EnterGetScreenHierarchy(call, cachedScreenHierarchy)]
                /\ UNCHANGED cachedElement
    /\ UNCHANGED <<cachedScreenHierarchy, screen>>
    /\ UNCHANGED <<cachedScreenResolution, wmSize>>
    /\ UNCHANGED beside

(***************************************************************************)
(* The transport settles the pending dump command.                         *)
(***************************************************************************)
\* Mutant: the output format is not looked at; every dump is parsed.
AfterExec_AlwaysParses(call, hierarchyXML) ==
    [call EXCEPT !.pc = "awaitParse", !.hierarchyXML = Some(hierarchyXML)]

\* getScreenHierarchy from the dump text to its next await or return.
AfterExec(call, hierarchyXML) ==
    IF call.op = "getScreenHierarchy" /\ call.outputFormat = "XML"
    THEN Returned(Written(call, "xml"), [kind |-> "xml", val |-> hierarchyXML])
    ELSE [call EXCEPT !.pc = "awaitParse", !.hierarchyXML = Some(hierarchyXML)]

\* ADBShell resolves with the dump text.
ExecResolves(c) ==
    /\ calls[c].pc = "awaitExec"
    /\ calls' = [calls EXCEPT ![c] = AfterExec(calls[c], screen)]
    /\ UNCHANGED <<cachedScreenHierarchy, cachedElement, screen>>
    /\ UNCHANGED <<cachedScreenResolution, wmSize>>
    /\ UNCHANGED beside

\* ADBShell rejects with `${ADBError.COMMAND_FAILED}: ...`; nothing catches it.
ExecRejects(c) ==
    /\ calls[c].pc = "awaitExec"
    /\ calls' = [calls EXCEPT ![c] =
          Thrown([calls[c] EXCEPT !.rejected = TRUE], Failure("COMMAND_FAILED"))]
    /\ UNCHANGED <<cachedScreenHierarchy, cachedElement, screen>>
    /\ UNCHANGED <<cachedScreenResolution, wmSize>>
    /\ UNCHANGED beside

(***************************************************************************)
(* parseStringPromise settles; on success the rest of getScreenHierarchy   *)
(* runs: flatten, write the file, store the hierarchy, return it.          *)
(***************************************************************************)
\* Mutant: a failed parse stores the (empty) list of records built so far.
HierarchyAfterParse_StoresOnFailure(cache, flat) ==
    IF flat.kind = "hierarchy" THEN Some(flat.val) ELSE Some(<<>>)

\* Mutant: the hierarchy is stored only while the slot is empty.
HierarchyAfterParse_Guarded(cache, flat) ==
    IF flat.kind = "hierarchy" /\ cache = Null THEN Some(flat.val) ELSE cache

\* this.cachedScreenHierarchyValue = elements, reached only without a throw.
HierarchyAfterParse(cache, flat) ==
    IF flat.kind = "hierarchy" THEN Some(flat.val) ELSE cache

ParseSettles(c) ==
    /\ calls[c].pc = "awaitParse"
    /\ LET call == calls[c]
           flat == Flatten(call.hierarchyXML[1])
       IN  /\ cachedScreenHierarchy' = HierarchyAfterParse(cachedScreenHierarchy, flat)
           /\ calls' = [calls EXCEPT ![c] =
                IF flat.kind = "error" THEN Thrown(call, flat)
                ELSE IF call.op = "findElement"
                THEN [call EXCEPT !.pc = "awaitHierarchy", !.hierarchyXML = Null,
                                  !.elements = Some(flat.val)]
                ELSE Returned(Written(call, "json"), flat)]
    /\ UNCHANGED <<cachedElement, screen>>
    /\ UNCHANGED <<cachedScreenResolution, wmSize>>
    /\ UNCHANGED beside

\* findElement resumes after `await this.getScreenHierarchy('JSON')`.
FindResumes(c) ==
    /\ calls[c].pc = "awaitHierarchy"
    /\ LET call == calls[c]
           out == FindOutcome(call.elements[1], call.conditions, call.attributes,
                              cachedElement)
       IN  /\ calls' = [calls EXCEPT ![c] = Returned(call, out.result)]
           /\ cachedElement' = out.cachedElement
    /\ UNCHANGED <<cachedScreenHierarchy, screen>>
    /\ UNCHANGED <<cachedScreenResolution, wmSize>>
    /\ UNCHANGED beside

\* The device shows another screen (or its dump breaks).
(***************************************************************************)
(* getScreenResolution up to its await: return the cached resolution, or   *)
(* send `wm size`.                                                         *)
(***************************************************************************)
getScreenResolution(c) ==
    /\ Settled(calls[c])
    /\ LET call == [NoCall EXCEPT !.op = "getScreenResolution"]
       IN  calls' = [calls EXCEPT ![c] =
              IF ResolutionCacheHit(cachedScreenResolution)
              THEN Returned(call, [kind |-> "resolution", val |-> cachedScreenResolution[1]])
              ELSE [call EXCEPT !.pc = "awaitSize", !.cmds = 1]]
    /\ UNCHANGED <<cachedScreenHierarchy, cachedElement, cachedScreenResolution,
                   screen, wmSize>>
    /\ UNCHANGED beside

\* Mutant: the match is used without the test that there is one.
ResolutionAfterExec_Unguarded(call, cache, resolutionString) ==
    LET found == match(resolutionString)
    IN  IF found /= Null
        THEN LET size == [width |-> parseInt(found[1][1], Radix),
                          height |-> parseInt(found[1][2], Radix)]
             IN  [call |-> Returned(call, [kind |-> "resolution", val |-> size]),
                  cachedScreenResolution |-> Some(size)]
        ELSE [call |-> Thrown(call, Failure("TypeError")),
              cachedScreenResolution |-> cache]

\* Mutant: a text without the pattern empties the cache.
ResolutionAfterExec_ClearsOnNoMatch(call, cache, resolutionString) ==
    LET found == match(resolutionString)
    IN  IF found /= Null
        THEN LET size == [width |-> parseInt(found[1][1], Radix),
                          height |-> parseInt(found[1][2], Radix)]
             IN  [call |-> Returned(call, [kind |-> "resolution", val |-> size]),
                  cachedScreenResolution |-> Some(size)]
        ELSE [call |-> Returned(call, [kind |-> "null", val |-> <<>>]),
              cachedScreenResolution |-> Null]

\* getScreenResolution from the size text to its return.
ResolutionAfterExec(call, cache, resolutionString) ==
    LET found == match(resolutionString)
    IN  IF found /= Null
        THEN LET size == [width |-> parseInt(found[1][1], Radix),
                          height |-> parseInt(found[1][2], Radix)]
             IN  [call |-> Returned(call, [kind |-> "resolution", val |-> size]),
                  cachedScreenResolution |-> Some(size)]
        ELSE [call |-> Returned(call, [kind |-> "null", val |-> <<>>]),
              cachedScreenResolution |-> cache]

\* ADBShell resolves with the trimmed size text.
SizeResolves(c) ==
    /\ calls[c].pc = "awaitSize"
    /\ LET out == ResolutionAfterExec(calls[c], cachedScreenResolution, Trim(wmSize))
       IN  /\ calls' = [calls EXCEPT ![c] = out.call]
           /\ cachedScreenResolution' = out.cachedScreenResolution
    /\ UNCHANGED <<cachedScreenHierarchy, cachedElement, screen, wmSize>>
    /\ UNCHANGED beside

\* Mutant: the rejection is not caught.
SizeRejected_Propagates(call) ==
    Thrown([call EXCEPT !.rejected = TRUE], Failure("COMMAND_FAILED"))

\* Mutant: a rejected command is sent once more before giving up.
SizeRejected_RetriesOnce(call) ==
    IF call.cmds < 2
    THEN [call EXCEPT !.rejected = TRUE, !.cmds = call.cmds + 1]
    ELSE Returned([call EXCEPT !.rejected = TRUE], [kind |-> "null", val |-> <<>>])

\* catch (error) { console.error(...); return null; }
SizeRejected(call) ==
    Returned([call EXCEPT !.rejected = TRUE], [kind |-> "null", val |-> <<>>])

\* ADBShell rejects: the catch block of getScreenResolution runs.
SizeRejects(c) ==
    /\ calls[c].pc = "awaitSize"
    /\ calls' = [calls EXCEPT ![c] = SizeRejected(calls[c])]
    /\ UNCHANGED <<cachedScreenHierarchy, cachedElement, cachedScreenResolution,
                   screen, wmSize>>
    /\ UNCHANGED beside

\* The device's reported size changes.
SizeChanges(sizes) ==
    /\ wmSize' \in sizes \ {wmSize}
    /\ UNCHANGED <<cachedScreenHierarchy, cachedElement, cachedScreenResolution,
                   screen, calls>>
    /\ UNCHANGED beside

ScreenChanges(screens) ==
    /\ screen' \in screens \ {screen}
    /\ UNCHANGED <<cachedScreenHierarchy, cachedElement, calls>>
    /\ UNCHANGED <<cachedScreenResolution, wmSize>>
    /\ UNCHANGED beside

(***************************************************************************)
(* UIAttributes.checkAttribute.  The object reads its own cachedElement    *)
(* slot (the shared manager's in the other copy of the file); no operation *)
(* of Screen writes that slot.                                             *)
(***************************************************************************)
FlagAttributes == {"clickable", "focused", "checked"}
QueryElements ==
    {Null,
     Some(<<>>),
     Some([clickable |-> TRUEV, focused |-> FALSEV, text |-> Str("ok")]),
     Some([resourceId |-> Str("btn2"), clickable |-> FALSEV])}

\* Mutant: an attribute the element lacks counts as false.
checkAttribute_AbsentIsFalse(attribute, element, cache) ==
    IF cache = Null \/ (cache = Null /\ element = Null) \/ element = Null
    THEN "null"
    ELSE LET elementToCheck == IF element /= Null THEN element[1] ELSE cache[1]
         IN  IF Get(elementToCheck, attribute) = TRUEV THEN "true" ELSE "false"

\* checkAttribute(attribute, element): "true", "false" or "null".  `== null`
\* holds of null and of undefined; an element, even {}, is truthy.
checkAttribute(attribute, element, cache) ==
    IF cache = Null \/ (cache = Null /\ element = Null) \/ element = Null
    THEN "null"
    ELSE LET elementToCheck == IF element /= Null THEN element[1] ELSE cache[1]
         IN  IF Get(elementToCheck, attribute) /= Undefined
             THEN IF Get(elementToCheck, attribute) = TRUEV THEN "true" ELSE "false"
             ELSE "null"

\* isClickable(element), isFocused(element), ...: one synchronous call.
AttributeQuery(attribute, element) ==
    /\ query' = [attribute |-> attribute, element |-> element,
                 result |-> checkAttribute(attribute, element, uiCachedElement)]
    /\ UNCHANGED <<cachedScreenHierarchy, cachedElement, cachedScreenResolution,
                   screen, wmSize, calls, uiCachedElement, other>>

\* set cachedElementValue(value), called from outside Screen.
SetCachedElementValue(value) ==
    /\ uiCachedElement' = value
    /\ UNCHANGED <<cachedScreenHierarchy, cachedElement, cachedScreenResolution,
                   screen, wmSize, calls, query, other>>

(***************************************************************************)
(* A second Screen object, constructed for another device.  The three      *)
(* slots are instance fields of CacheManagement, so `this.slot` inside a   *)
(* method is the slot of the object the method was called on.              *)
(***************************************************************************)
\* What the second device prints for the two commands.
OtherDump == ScreenB
OtherSize == SizeOverride
OtherConditions == [resourceId |-> Str("frame")]
Operations == {"getScreenHierarchy", "findElement", "getScreenResolution"}

\* Mutant: the slots are static members, one per class for all objects.
ThisSlot_Static(own, first) == first

\* this.<slot> on the second object: its own field, not the first object's.
ThisSlot(own, first) == own

\* The second object's method up to its first await.
OtherCalls(op) ==
    /\ Settled(other.call)
    /\ LET h == ThisSlot(other.cachedScreenHierarchy, cachedScreenHierarchy)
           e == ThisSlot(other.cachedElement, cachedElement)
           r == ThisSlot(other.cachedScreenResolution, cachedScreenResolution)
           call == [NoCall EXCEPT !.op = op,
                                  !.conditions = IF op = "findElement"
                                                 THEN OtherConditions ELSE <<>>]
       IN  other' =
             IF op = "getScreenHierarchy"
             THEN [other EXCEPT !.call = EnterGetScreenHierarchy(call, h)]
             ELSE IF op = "getScreenResolution"
             THEN [other EXCEPT !.call =
                     IF ResolutionCacheHit(r)
                     THEN Returned(call, [kind |-> "resolution", val |-> r[1]])
                     ELSE [call EXCEPT !.pc = "awaitSize", !.cmds = 1]]
             ELSE IF ElementCacheHit(e)
             THEN [other EXCEPT !.call =
                     Returned(call, [kind |-> "element", val |-> e[1]])]
             ELSE IF HierarchyGiven(call.screenHierarchyJSON)
             THEN LET out == FindOutcome(call.screenHierarchyJSON[1], call.conditions,
                                         call.attributes, e)
                  IN  [other EXCEPT !.call = Returned(call, out.result),
                                    !.cachedElement = out.cachedElement]
             ELSE [other EXCEPT !.call = EnterGetScreenHierarchy(call, h)]
    /\ UNCHANGED <<cachedScreenHierarchy, cachedElement, cachedScreenResolution,
                   screen, wmSize, calls, uiCachedElement, query>>

\* The second object's pending call takes its next step: its command is
\* answered, its parse settles, or its findElement resumes.
OtherContinues ==
    /\ ~Settled(other.call)
    /\ LET h == ThisSlot(other.cachedScreenHierarchy, cachedScreenHierarchy)
           e == ThisSlot(other.cachedElement, cachedElement)
           r == ThisSlot(other.cachedScreenResolution, cachedScreenResolution)
           call == other.call
       IN  other' =
             IF call.pc = "awaitExec"
             THEN [other EXCEPT !.call = AfterExec(call, OtherDump)]
             ELSE IF call.pc = "awaitParse"
             THEN LET flat == Flatten(call.hierarchyXML[1])
                  IN  [other EXCEPT
                         !.cachedScreenHierarchy = HierarchyAfterParse(h, flat),
                         !.call = IF flat.kind = "error" THEN Thrown(call, flat)
                                  ELSE IF call.op = "findElement"
                                  THEN [call EXCEPT !.pc = "awaitHierarchy",
                                                    !.hierarchyXML = Null,
                                                    !.elements = Some(flat.val)]
                                  ELSE Returned(Written(call, "json"), flat)]
             ELSE IF call.pc = "awaitHierarchy"
             THEN LET out == FindOutcome(call.elements[1], call.conditions,
                                         call.attributes, e)
                  IN  [other EXCEPT !.call = Returned(call, out.result),
                                    !.cachedElement = out.cachedElement]
             ELSE LET out == ResolutionAfterExec(call, r, Trim(OtherSize))
                  IN  [other EXCEPT !.call = out.call,
                                    !.cachedScreenResolution = out.cachedScreenResolution]
    /\ UNCHANGED <<cachedScreenHierarchy, cachedElement, cachedScreenResolution,
                   screen, wmSize, calls, uiCachedElement, query>>

\* The second object's pending command is rejected.
OtherRejects ==
    /\ other.call.pc \in {"awaitExec", "awaitSize"}
    /\ other' = [other EXCEPT !.call =
                   IF other.call.pc = "awaitSize" THEN SizeRejected(other.call)
                   ELSE Thrown([other.call EXCEPT !.rejected = TRUE],
                               Failure("COMMAND_FAILED"))]
    /\ UNCHANGED <<cachedScreenHierarchy, cachedElement, cachedScreenResolution,
                   screen, wmSize, calls, uiCachedElement, query>>

Next ==
    \/ \E c \in Callers, outputFormat \in OutputFormats :
          getScreenHierarchy(c, outputFormat, Null)
    \/ \E c \in Callers, conditions \in Conditions,
          screenHierarchyJSON \in SuppliedHierarchies, attributes \in AttributeLists :
          findElement(c, conditions, screenHierarchyJSON, attributes)
    \/ \E c \in Callers : ExecResolves(c)
    \/ \E c \in Callers : ExecRejects(c)
    \/ \E c \in Callers : ParseSettles(c)
    \/ \E c \in Callers : FindResumes(c)
    \/ ScreenChanges(Screens)

Spec == Init /\ [][Next]_vars

\* One caller exercising findElement over the wide inputs.
NextFind ==
    \/ \E input \in FindInputs : findElement(1, input[1], input[2], input[3])
    \/ ExecResolves(1)
    \/ ExecRejects(1)
    \/ ParseSettles(1)
    \/ FindResumes(1)
    \/ ScreenChanges(Screens)

SpecFind == Init /\ [][NextFind]_vars

\* One caller fetching the hierarchy in either format, with and without an
\* output file, from every kind of dump.
InitFetch ==
    /\ cachedScreenHierarchy = Null
    /\ cachedElement = Null
    /\ cachedScreenResolution = Null
    /\ screen \in AllScreens
    /\ wmSize = SizePlain
    /\ calls = [c \in Callers |-> NoCall]
    /\ uiCachedElement = Null
    /\ query = NoQuery
    /\ other = NoOther

NextFetch ==
    \/ \E outputFormat \in OutputFormats, outputFilePath \in OutputFilePaths :
          getScreenHierarchy(1, outputFormat, outputFilePath)
    \/ ExecResolves(1)
    \/ ExecRejects(1)
    \/ ParseSettles(1)
    \/ ScreenChanges(AllScreens)

SpecFetch == InitFetch /\ [][NextFetch]_vars

\* Two callers asking for the resolution while the reported size changes;
\* caller 1 also makes the two hierarchy operations.
InitResolution ==
    /\ cachedScreenHierarchy = Null
    /\ cachedElement = Null
    /\ cachedScreenResolution = Null
    /\ screen = ScreenA
    /\ wmSize \in SizeStrings
    /\ calls = [c \in Callers |-> NoCall]
    /\ uiCachedElement = Null
    /\ query = NoQuery
    /\ other = NoOther

NextResolution ==
    \/ \E c \in Callers : getScreenResolution(c)
    \/ \E c \in Callers : SizeResolves(c)
    \/ \E c \in Callers : SizeRejects(c)
    \/ SizeChanges(SizeStrings)
    \/ getScreenHierarchy(1, "JSON", Null)
    \/ findElement(1, [resourceId |-> Str("btn1")], Null, Null)
    \/ ExecResolves(1)
    \/ ExecRejects(1)
    \/ ParseSettles(1)
    \/ FindResumes(1)

SpecResolution == InitResolution /\ [][NextResolution]_vars

\* One caller fetching the flattened hierarchy of every small dump.
InitFlatten ==
    /\ cachedScreenHierarchy = Null
    /\ cachedElement = Null
    /\ cachedScreenResolution = Null
    /\ screen \in Dumps
    /\ wmSize = SizePlain
    /\ calls = [c \in Callers |-> NoCall]
    /\ uiCachedElement = Null
    /\ query = NoQuery
    /\ other = NoOther

NextFlatten ==
    \/ getScreenHierarchy(1, "JSON", Null)
    \/ ExecResolves(1)
    \/ ExecRejects(1)
    \/ ParseSettles(1)

SpecFlatten == InitFlatten /\ [][NextFlatten]_vars

\* Two callers making all three operations of Screen, in any interleaving.
InitAll ==
    /\ cachedScreenHierarchy = Null
    /\ cachedElement = Null
    /\ cachedScreenResolution = Null
    /\ screen = ScreenA
    /\ wmSize \in {SizePlain, SizeNoPattern}
    /\ calls = [c \in Callers |-> NoCall]
    /\ uiCachedElement = Null
    /\ query = NoQuery
    /\ other = NoOther

NextAll ==
    \/ \E c \in Callers : getScreenHierarchy(c, "JSON", Null)
    \/ \E c \in Callers : findElement(c, [resourceId |-> Str("btn1")], Null, Null)
    \/ \E c \in Callers : getScreenResolution(c)
    \/ \E c \in Callers : ExecResolves(c)
    \/ \E c \in Callers : ExecRejects(c)
    \/ \E c \in Callers : ParseSettles(c)
    \/ \E c \in Callers : FindResumes(c)
    \/ \E c \in Callers : SizeResolves(c)
    \/ \E c \in Callers : SizeRejects(c)
    \/ SizeChanges({SizePlain, SizeNoPattern})
    \/ ScreenChanges({ScreenA, Garbage})

SpecAll == InitAll /\ [][NextAll]_vars

\* Two callers making all three operations on a device that stays as it
\* is, where every pending transport command is eventually answered or
\* rejected, every parse eventually settles, and a call whose awaited
\* promise has settled eventually resumes.
InitLive ==
    /\ cachedScreenHierarchy = Null
    /\ cachedElement = Null
    /\ cachedScreenResolution = Null
    /\ screen \in {ScreenA, Garbage}
    /\ wmSize \in {SizePlain, SizeNoPattern}
    /\ calls = [c \in Callers |-> NoCall]
    /\ uiCachedElement = Null
    /\ query = NoQuery
    /\ other = NoOther

\* The pending call of caller c takes its next step.
Continues(c) ==
    \/ ExecRejects(c)
    \/ ExecResolves(c)
    \/ ParseSettles(c)
    \/ FindResumes(c)
    \/ SizeRejects(c)
    \/ SizeResolves(c)

NextLive ==
    \/ \E c \in Callers : getScreenHierarchy(c, "JSON", Null)
    \/ \E c \in Callers : findElement(c, [resourceId |-> Str("btn1")], Null, Null)
    \/ \E c \in Callers : getScreenResolution(c)
    \/ \E c \in Callers : Continues(c)

SpecLive == InitLive /\ [][NextLive]_vars /\ \A c \in Callers : WF_vars(Continues(c))

\* Two Screen objects, one per device, each making all three operations in
\* any interleaving; the first device shows ScreenA, the second OtherDump.
InitDevices ==
    /\ cachedScreenHierarchy = Null
    /\ cachedElement = Null
    /\ cachedScreenResolution = Null
    /\ screen = ScreenA
    /\ wmSize = SizePlain
    /\ calls = [c \in Callers |-> NoCall]
    /\ uiCachedElement = Null
    /\ query = NoQuery
    /\ other = NoOther

NextDevices ==
    \/ getScreenHierarchy(1, "JSON", Null)
    \/ findElement(1, [resourceId |-> Str("btn1")], Null, Null)
    \/ getScreenResolution(1)
    \/ ExecResolves(1)
    \/ ExecRejects(1)
    \/ ParseSettles(1)
    \/ FindResumes(1)
    \/ SizeResolves(1)
    \/ SizeRejects(1)
    \/ \E op \in Operations : OtherCalls(op)
    \/ OtherContinues
    \/ OtherRejects

SpecDevices == InitDevices /\ [][NextDevices]_vars

\* One caller locating an element in a hierarchy it supplies, and the
\* attribute-flag queries made beside it.
NextAttributes ==
    \/ \E conditions \in Conditions :
          findElement(1, conditions, Some(GivenA), Null)
    \/ \E attribute \in FlagAttributes, element \in QueryElements :
          AttributeQuery(attribute, element)
    \/ \E value \in QueryElements \ {Null} : SetCachedElementValue(value)

SpecAttributes == Init /\ [][NextAttributes]_vars

(***************************************************************************)
(* Vocabulary of the properties.  A property about one call speaks of the  *)
(* step in which caller c's call enters or resumes: calls[c] is the call   *)
(* before the step, calls'[c] after it.                                    *)
(***************************************************************************)
\* Caller c makes a new call in this step.
Enters(c, op) ==
    Settled(calls[c]) /\ calls'[c] /= calls[c] /\ calls'[c].op = op

\* Caller c's getScreenHierarchy starts in this step, called by the caller
\* itself or by findElement on an Element Cache miss without a hierarchy argument.
EntersHierarchy(c) ==
    \/ Enters(c, "getScreenHierarchy")
    \/ /\ Enters(c, "findElement")
       /\ cachedElement = Null
       /\ calls'[c].screenHierarchyJSON = Null

\* Some other caller's fetch is suspended at the transport or at the parse.
OtherInFlight(c) ==
    \E d \in Callers \ {c} : calls[d].pc \in {"awaitExec", "awaitParse"}

\* The hierarchy the device would yield if it were asked now.
Live == Flatten(screen)

\* A record satisfies a condition: it has every key of the condition, with
\* the expected value of the expected type.
Satisfies(record, condition) ==
    \A key \in DOMAIN condition :
        key \in DOMAIN record /\ record[key] = condition[key]

Satisfying(elements, condition) ==
    SelectSeq(elements, LAMBDA record : Satisfies(record, condition))

\* Caller c's findElement, having missed the Element Cache, filters a
\* hierarchy in this step: the one it was given, or the one it awaited.
Filters(c) ==
    \/ /\ Enters(c, "findElement")
       /\ cachedElement = Null
       /\ calls'[c].screenHierarchyJSON /= Null
    \/ calls[c].pc = "awaitHierarchy" /\ calls'[c] /= calls[c]

Filtered(c) ==
    IF calls[c].pc = "awaitHierarchy" THEN calls[c].elements[1]
    ELSE calls'[c].screenHierarchyJSON[1]

\* r holds some of m's keys, each with m's value, and nothing else.
PartOf(r, m) ==
    DOMAIN r \subseteq DOMAIN m /\ \A key \in DOMAIN r : r[key] = m[key]

\* r is what the call hands back for the match m.
ReturnedFor(r, m, attributes) ==
    IF attributes = Null THEN r = m
    ELSE PartOf(r, m) /\ DOMAIN r \subseteq {attributes[1][i] : i \in DOMAIN attributes[1]}

\* The records a findElement result carries: none, one, or the sequence.
RecordsOf(result) ==
    IF result.kind = "null" THEN <<>>
    ELSE IF result.kind = "element" THEN <<result.val>>
    ELSE result.val

(***************************************************************************)
(* C1.  A getScreenHierarchy call that finds the Hierarchy Cache populated *)
(* returns the cached hierarchy at once, sends no transport command and    *)
(* leaves the cache as it is, whatever the device shows now.               *)
(***************************************************************************)
C1_CacheHitReturnsCached ==
    [][\A c \in Callers :
         EntersHierarchy(c) /\ cachedScreenHierarchy /= Null =>
            /\ calls'[c].cmds = 0
            /\ cachedScreenHierarchy' = cachedScreenHierarchy
            /\ IF calls'[c].op = "getScreenHierarchy"
               THEN /\ calls'[c].pc = "returned"
                    /\ calls'[c].result =
                          [kind |-> "hierarchy", val |-> cachedScreenHierarchy[1]]
               ELSE /\ calls'[c].pc = "awaitHierarchy"
                    /\ calls'[c].elements = cachedScreenHierarchy]_vars

\* A call answered from the cache while the device shows a different tree.
C1_Witness ==
    \E c \in Callers :
        /\ calls[c].op = "getScreenHierarchy"
        /\ calls[c].pc = "returned"
        /\ calls[c].cmds = 0
        /\ cachedScreenHierarchy = Some(calls[c].result.val)
        /\ Live.kind = "hierarchy"
        /\ Live.val /= calls[c].result.val

(***************************************************************************)
(* C2.  A findElement call that finds the Element Cache populated returns  *)
(* the cached record, whatever its arguments are, sends no transport       *)
(* command and changes no cache slot.                                      *)
(***************************************************************************)
C2_ElementHitIgnoresArguments ==
    [][\A c \in Callers :
         Enters(c, "findElement") /\ cachedElement /= Null =>
            /\ calls'[c].pc = "returned"
            /\ calls'[c].result = [kind |-> "element", val |-> cachedElement[1]]
            /\ calls'[c].cmds = 0
            /\ cachedElement' = cachedElement
            /\ cachedScreenHierarchy' = cachedScreenHierarchy]_vars

\* A call given a hierarchy, a projection and a condition the cached record
\* does not satisfy, answered with the cached record.
C2_Witness ==
    \E c \in Callers :
        /\ calls[c].op = "findElement"
        /\ calls[c].pc = "returned"
        /\ calls[c].cmds = 0
        /\ calls[c].result.kind = "element"
        /\ cachedElement = Some(calls[c].result.val)
        /\ ~Satisfies(calls[c].result.val, calls[c].conditions)
        /\ calls[c].screenHierarchyJSON /= Null
        /\ calls[c].attributes /= Null

(***************************************************************************)
(* C3.  A fetch whose transport command is rejected, or whose dump does    *)
(* not parse, ends in that failure and leaves the Hierarchy Cache as it    *)
(* was; and a getScreenHierarchy call that finds the cache empty sends     *)
(* the dump command, also after a failed call.                             *)
(***************************************************************************)
C3_FailurePropagatesCacheUntouched ==
    [][\A c \in Callers :
         /\ (calls[c].pc = "awaitExec" /\ calls'[c] /= calls[c]
               /\ calls'[c].pc \notin {"awaitParse", "returned"}) =>
               /\ calls'[c].pc = "failed"
               /\ calls'[c].result = Failure("COMMAND_FAILED")
               /\ cachedScreenHierarchy' = cachedScreenHierarchy
         /\ (calls[c].pc = "awaitParse"
               /\ Flatten(calls[c].hierarchyXML[1]).kind = "error"
               /\ calls'[c] /= calls[c]) =>
               /\ calls'[c].pc = "failed"
               /\ calls'[c].result = Flatten(calls[c].hierarchyXML[1])
               /\ cachedScreenHierarchy' = cachedScreenHierarchy
         /\ (calls'[c].pc = "failed" /\ calls[c].pc /= "failed") =>
               /\ calls[c].pc \in {"awaitExec", "awaitParse"}
               /\ calls'[c].result.kind = "error"
               /\ cachedScreenHierarchy' = cachedScreenHierarchy
         /\ (EntersHierarchy(c) /\ cachedScreenHierarchy = Null) =>
               /\ calls'[c].pc = "awaitExec"
               /\ calls'[c].cmds = 1]_vars

\* One call failed at the parse, then the next one sent the command again
\* and failed at the transport; the cache is empty.
C3_Witness ==
    /\ cachedScreenHierarchy = Null
    /\ calls[1].pc = "failed" /\ calls[1].result = Failure("ParseError")
    /\ calls[2].pc = "failed" /\ calls[2].result = Failure("COMMAND_FAILED")
    /\ calls[2].cmds = 1

(***************************************************************************)
(* C4.  A getScreenHierarchy call that finds the cache empty sends its own *)
(* command although another fetch is in flight, and a flattened fetch      *)
(* that completes stores its hierarchy whether or not the cache has been   *)
(* populated meanwhile: once both calls have returned, the cache holds the *)
(* hierarchy of one of them, the one that wrote last.                      *)
(***************************************************************************)
C4_BothFetchLastWriterWins ==
    /\ [][\A c \in Callers :
            /\ (EntersHierarchy(c) /\ cachedScreenHierarchy = Null /\ OtherInFlight(c)) =>
                  calls'[c].pc = "awaitExec" /\ calls'[c].cmds = 1
            /\ (calls[c].pc = "awaitParse"
                  /\ Flatten(calls[c].hierarchyXML[1]).kind = "hierarchy"
                  /\ calls'[c] /= calls[c]) =>
                  cachedScreenHierarchy' = Some(Flatten(calls[c].hierarchyXML[1]).val)]_vars
    /\ []((\A c \in Callers :
              /\ calls[c].op = "getScreenHierarchy"
              /\ calls[c].pc = "returned"
              /\ calls[c].result.kind = "hierarchy"
              /\ calls[c].cmds = 1)
           => \E c \in Callers : cachedScreenHierarchy = Some(calls[c].result.val))

\* Both calls fetched and returned different hierarchies; the cache holds
\* the second caller's.
C4_Witness ==
    /\ \A c \in Callers :
          /\ calls[c].op = "getScreenHierarchy"
          /\ calls[c].pc = "returned"
          /\ calls[c].result.kind = "hierarchy"
          /\ calls[c].cmds = 1
    /\ calls[1].result.val /= calls[2].result.val
    /\ cachedScreenHierarchy = Some(calls[2].result.val)

(***************************************************************************)
(* C5.  The Hierarchy Cache changes only in a step that completes a fetch, *)
(* and only while it is empty.                                             *)
(***************************************************************************)
C5_HierarchyWrittenOnlyWhenEmpty ==
    [][cachedScreenHierarchy' /= cachedScreenHierarchy =>
          /\ cachedScreenHierarchy = Null
          /\ \E c \in Callers : calls[c].pc = "awaitParse" /\ calls'[c] /= calls[c]]_vars

(***************************************************************************)
(* C6.  When a findElement call that missed the Element Cache filters a    *)
(* hierarchy in which exactly one record satisfies the condition, it       *)
(* returns that match as a single record (projected if a projection was    *)
(* asked for) and the Element Cache then holds the record it returned.     *)
(***************************************************************************)
C6_SingleMatchReturnedAndCached ==
    [][\A c \in Callers :
         LET matches == Satisfying(Filtered(c), calls'[c].conditions) IN
         Filters(c) /\ Len(matches) = 1 =>
            /\ calls'[c].pc = "returned"
            /\ calls'[c].result.kind = "element"
            /\ ReturnedFor(calls'[c].result.val, matches[1], calls'[c].attributes)
            /\ cachedElement' = Some(calls'[c].result.val)]_vars

\* A call that fetched the hierarchy, found one match and cached it.
C6_Witness ==
    \E c \in Callers :
        /\ calls[c].op = "findElement"
        /\ calls[c].pc = "returned"
        /\ calls[c].cmds = 1
        /\ calls[c].conditions /= <<>>
        /\ calls[c].result.kind = "element"
        /\ Satisfies(calls[c].result.val, calls[c].conditions)
        /\ cachedElement = Some(calls[c].result.val)

(***************************************************************************)
(* C7.  When two or more records satisfy the condition, the call returns   *)
(* one record per match, in hierarchy order, and leaves the Element Cache  *)
(* as it was (empty, if it was empty), so that a later call filters again. *)
(***************************************************************************)
C7_MultipleMatchesNotCached ==
    [][\A c \in Callers :
         LET matches == Satisfying(Filtered(c), calls'[c].conditions) IN
         Filters(c) /\ Len(matches) >= 2 =>
            /\ calls'[c].pc = "returned"
            /\ calls'[c].result.kind = "elements"
            /\ Len(calls'[c].result.val) = Len(matches)
            /\ \A i \in DOMAIN matches :
                  ReturnedFor(calls'[c].result.val[i], matches[i], calls'[c].attributes)
            /\ cachedElement' = cachedElement]_vars

\* One call got several matches, the cache stayed empty, and the other
\* caller's call then filtered by its own condition and found nothing.
C7_Witness ==
    /\ calls[1].op = "findElement" /\ calls[1].pc = "returned"
    /\ calls[1].result.kind = "elements"
    /\ Len(calls[1].result.val) >= 2
    /\ calls[1].result.val[1] /= calls[1].result.val[2]
    /\ cachedElement = Null
    /\ calls[2].op = "findElement" /\ calls[2].pc = "returned"
    /\ calls[2].result.kind = "null"

(***************************************************************************)
(* C8.  When no record satisfies the condition, the call returns null, it  *)
(* does not fail, and it leaves the Element Cache as it was.               *)
(***************************************************************************)
C8_NoMatchReturnsNull ==
    [][\A c \in Callers :
         Filters(c) /\ Len(Satisfying(Filtered(c), calls'[c].conditions)) = 0 =>
            /\ calls'[c].pc = "returned"
            /\ calls'[c].result = [kind |-> "null", val |-> <<>>]
            /\ cachedElement' = cachedElement]_vars

\* A call that fetched a non-empty hierarchy and found no match in it.
C8_Witness ==
    \E c \in Callers :
        /\ calls[c].op = "findElement"
        /\ calls[c].pc = "returned"
        /\ calls[c].cmds = 1
        /\ calls[c].result.kind = "null"
        /\ cachedScreenHierarchy /= Null
        /\ Len(cachedScreenHierarchy[1]) > 0
        /\ cachedElement = Null

(***************************************************************************)
(* C9.  The records a findElement call retains are exactly the records of  *)
(* the hierarchy that satisfy the condition, in hierarchy order: a record  *)
(* lacking a condition key is left out, and so is one whose value has the  *)
(* expected text but another type.                                         *)
(***************************************************************************)
C9_RetainsExactlySatisfying ==
    [][\A c \in Callers :
         LET matches == Satisfying(Filtered(c), calls'[c].conditions) IN
         Filters(c) =>
            /\ calls'[c].pc = "returned"
            /\ calls'[c].result.kind \in {"null", "element", "elements"}
            /\ Len(RecordsOf(calls'[c].result)) = Len(matches)
            /\ calls'[c].attributes = Null => RecordsOf(calls'[c].result) = matches]_vars

\* A two-key condition asking for the string "true" where one record has the
\* boolean true and another the string: only the latter is returned.
C9_Witness ==
    /\ calls[1].op = "findElement" /\ calls[1].pc = "returned"
    /\ calls[1].conditions = [clickable |-> Str("true"), resourceId |-> Str("frame")]
    /\ calls[1].screenHierarchyJSON = Some(GivenB)
    /\ calls[1].result = [kind |-> "element", val |-> GivenB[1]]

(***************************************************************************)
(* C10.  With an attribute list, every returned record has exactly the     *)
(* requested keys that its match has, each with the match's value.         *)
(***************************************************************************)
C10_ProjectionKeepsPresentKeys ==
    [][\A c \in Callers :
         LET matches == Satisfying(Filtered(c), calls'[c].conditions)
             returned == RecordsOf(calls'[c].result)
         IN  (Filters(c) /\ calls'[c].attributes /= Null /\ Len(matches) > 0) =>
                LET wanted == {calls'[c].attributes[1][i] :
                                 i \in DOMAIN calls'[c].attributes[1]}
                IN  /\ Len(returned) = Len(matches)
                    /\ \A i \in DOMAIN matches :
                          returned[i] = [key \in wanted \cap DOMAIN matches[i] |->
                                           matches[i][key]]]_vars

(***************************************************************************)
(* C11.  A findElement call that missed the Element Cache and was given    *)
(* the empty condition and a hierarchy returns every record of that        *)
(* hierarchy, in order, whether it has no record, one, or several.         *)
(***************************************************************************)
C11_EmptyConditionReturnsAll ==
    [][\A c \in Callers :
         (/\ Enters(c, "findElement")
          /\ cachedElement = Null
          /\ calls'[c].screenHierarchyJSON /= Null
          /\ calls'[c].conditions = <<>>) =>
            LET hierarchy == calls'[c].screenHierarchyJSON[1]
                returned == RecordsOf(calls'[c].result)
            IN  /\ calls'[c].pc = "returned"
                /\ calls'[c].result.kind \in {"null", "element", "elements"}
                /\ Len(returned) = Len(hierarchy)
                /\ \A i \in DOMAIN hierarchy :
                      ReturnedFor(returned[i], hierarchy[i], calls'[c].attributes)]_vars

\* The empty condition over a one-record hierarchy returned that record.
C11_Witness ==
    /\ calls[1].op = "findElement" /\ calls[1].pc = "returned"
    /\ calls[1].conditions = <<>>
    /\ calls[1].screenHierarchyJSON = Some(GivenOne)
    /\ calls[1].attributes = Null
    /\ calls[1].result = [kind |-> "element", val |-> GivenOne[1]]

(***************************************************************************)
(* C12.  A findElement call that missed the Element Cache filters the      *)
(* hierarchy it was given, sending no command and leaving the Hierarchy    *)
(* Cache alone; given none, it takes the cached hierarchy if there is one  *)
(* and otherwise fetches the dump, has it flattened and stored, and        *)
(* filters that.                                                           *)
(***************************************************************************)
C12_SuppliedHierarchyUsed ==
    [][\A c \in Callers :
         /\ (Enters(c, "findElement") /\ cachedElement = Null) =>
               IF calls'[c].screenHierarchyJSON /= Null
               THEN /\ calls'[c].pc = "returned"
                    /\ calls'[c].cmds = 0
                    /\ cachedScreenHierarchy' = cachedScreenHierarchy
                    /\ Len(RecordsOf(calls'[c].result)) =
                          Len(Satisfying(calls'[c].screenHierarchyJSON[1],
                                         calls'[c].conditions))
               ELSE IF cachedScreenHierarchy /= Null
               THEN /\ calls'[c].pc = "awaitHierarchy"
                    /\ calls'[c].elements = cachedScreenHierarchy
                    /\ calls'[c].cmds = 0
                    /\ cachedScreenHierarchy' = cachedScreenHierarchy
               ELSE /\ calls'[c].pc = "awaitExec"
                    /\ calls'[c].cmds = 1
         /\ (calls[c].op = "findElement" /\ calls[c].pc = "awaitExec"
               /\ calls'[c] /= calls[c] /\ calls'[c].pc /= "failed") =>
               calls'[c].pc = "awaitParse"
         /\ (calls[c].op = "findElement" /\ calls[c].pc = "awaitParse"
               /\ Flatten(calls[c].hierarchyXML[1]).kind = "hierarchy"
               /\ calls'[c] /= calls[c]) =>
               /\ calls'[c].pc = "awaitHierarchy"
               /\ calls'[c].elements = Some(Flatten(calls[c].hierarchyXML[1]).val)
               /\ cachedScreenHierarchy' = calls'[c].elements]_vars

\* A call given the empty hierarchy: no command, no match, nothing cached.
C12_Witness ==
    /\ calls[1].op = "findElement" /\ calls[1].pc = "returned"
    /\ calls[1].screenHierarchyJSON = Some(<<>>)
    /\ calls[1].cmds = 0
    /\ calls[1].result.kind = "null"
    /\ cachedScreenHierarchy = Null
    /\ cachedElement = Null

(***************************************************************************)
(* C13.  A getScreenHierarchy call asking for XML that found the cache     *)
(* empty returns the dump text as the transport gave it and does not       *)
(* touch the Hierarchy Cache, so the next call sends the command again.    *)
(***************************************************************************)
C13_XmlReturnedRawNotCached ==
    [][\A c \in Callers :
         /\ (/\ calls[c].op = "getScreenHierarchy"
             /\ calls[c].outputFormat = "XML"
             /\ calls[c].pc = "awaitExec"
             /\ calls'[c] /= calls[c]
             /\ calls'[c].pc /= "failed") =>
               /\ calls'[c].pc = "returned"
               /\ calls'[c].result = [kind |-> "xml", val |-> screen]
               /\ cachedScreenHierarchy' = cachedScreenHierarchy
         /\ (Enters(c, "getScreenHierarchy") /\ cachedScreenHierarchy = Null) =>
               calls'[c].pc = "awaitExec" /\ calls'[c].cmds = 1]_vars

\* An XML call returned a dump that would have flattened to records, and
\* the cache is still empty.
C13_Witness ==
    /\ calls[1].op = "getScreenHierarchy" /\ calls[1].pc = "returned"
    /\ calls[1].outputFormat = "XML"
    /\ calls[1].cmds = 1
    /\ calls[1].result = [kind |-> "xml", val |-> ScreenB]
    /\ cachedScreenHierarchy = Null

(***************************************************************************)
(* C14.  When a getScreenResolution call parses a size, the Resolution     *)
(* Cache holds the pair it returns; every getScreenResolution call made    *)
(* while the cache is filled returns the cached pair, sends no command and *)
(* leaves the cache alone, whatever size the device reports by then.  The  *)
(* cache is never emptied, and only a call that was already waiting for    *)
(* the transport can replace the pair.                                     *)
(***************************************************************************)
C14_ResolutionCachedAndReused ==
    [][/\ \A c \in Callers :
            /\ (/\ calls[c].op = "getScreenResolution"
                /\ calls[c].pc = "awaitSize"
                /\ calls'[c].pc = "returned"
                /\ calls'[c].result.kind = "resolution") =>
                  cachedScreenResolution' = Some(calls'[c].result.val)
            /\ (Enters(c, "getScreenResolution") /\ cachedScreenResolution /= Null) =>
                  /\ calls'[c].pc = "returned"
                  /\ calls'[c].result.kind = "resolution"
                  /\ calls'[c].result.val = cachedScreenResolution[1]
                  /\ calls'[c].cmds = 0
                  /\ cachedScreenResolution' = cachedScreenResolution
       /\ (cachedScreenResolution /= Null
             /\ cachedScreenResolution' /= cachedScreenResolution) =>
            /\ cachedScreenResolution' /= Null
            /\ \E d \in Callers :
                  calls[d].pc = "awaitSize" /\ calls'[d].pc = "returned"]_vars

\* A call answered from the cache while the device reports another size.
C14_Witness ==
    /\ cachedScreenResolution = Some([width |-> 48, height |-> 80])
    /\ wmSize = SizeOverride
    /\ calls[1].op = "getScreenResolution" /\ calls[1].pc = "returned"
    /\ calls[1].cmds = 0
    /\ calls[1].result = [kind |-> "resolution", val |-> [width |-> 48, height |-> 80]]
    /\ calls[2].pc /= "awaitSize"

(***************************************************************************)
(* C15.  A getScreenResolution call that found the Resolution Cache empty  *)
(* and whose command is rejected, or answered with a text that has no      *)
(* <digits>x<digits> part, returns null instead of failing and leaves the  *)
(* cache as it was; a call that finds the cache empty sends the command.   *)
(***************************************************************************)
C15_ResolutionFailureReturnsNull ==
    [][\A c \in Callers :
         /\ (/\ calls[c].op = "getScreenResolution"
             /\ calls[c].pc = "awaitSize"
             /\ calls'[c] /= calls[c]
             /\ (calls'[c].rejected \/ match(Trim(wmSize)) = Null)) =>
               /\ calls'[c].pc = "returned"
               /\ calls'[c].result.kind = "null"
               /\ cachedScreenResolution' = cachedScreenResolution
         /\ (Enters(c, "getScreenResolution") /\ cachedScreenResolution = Null) =>
               /\ calls'[c].pc = "awaitSize"
               /\ calls'[c].cmds = 1]_vars

\* One call got a text without the pattern, the other a rejection; both
\* returned null and the cache is empty.
C15_Witness ==
    /\ cachedScreenResolution = Null
    /\ wmSize = SizeNoPattern
    /\ calls[1].op = "getScreenResolution" /\ calls[1].pc = "returned"
    /\ ~calls[1].rejected /\ calls[1].cmds = 1 /\ calls[1].result.kind = "null"
    /\ calls[2].op = "getScreenResolution" /\ calls[2].pc = "returned"
    /\ calls[2].rejected /\ calls[2].cmds = 1 /\ calls[2].result.kind = "null"

(***************************************************************************)
(* C16.  As stated: in getScreenHierarchy, findElement and                 *)
(* getScreenResolution alike, a call whose transport command was rejected  *)
(* fails with that rejection.                                              *)
(***************************************************************************)
C16_TransportFailureSurfaced ==
    \A c \in Callers :
        calls[c].rejected =>
            /\ calls[c].pc = "failed"
            /\ calls[c].result = Failure("COMMAND_FAILED")

(***************************************************************************)
(* C16, amended.  A getScreenHierarchy or findElement call whose transport *)
(* command was rejected fails with that rejection; a getScreenResolution   *)
(* call whose command was rejected catches it and returns null.            *)
(***************************************************************************)
C16_TransportFailureSurfacedExceptResolution ==
    \A c \in Callers :
        calls[c].rejected =>
            IF calls[c].op = "getScreenResolution"
            THEN /\ calls[c].pc = "returned"
                 /\ calls[c].result.kind = "null"
            ELSE /\ calls[c].op \in {"getScreenHierarchy", "findElement"}
                 /\ calls[c].pc = "failed"
                 /\ calls[c].result = Failure("COMMAND_FAILED")

\* A rejected findElement call has failed and a rejected getScreenResolution
\* call has returned.
C16_Witness ==
    /\ calls[1].op = "findElement" /\ calls[1].rejected /\ calls[1].pc = "failed"
    /\ calls[2].op = "getScreenResolution" /\ calls[2].rejected
    /\ calls[2].pc = "returned"

(***************************************************************************)
(* C17.  As stated: the Resolution Cache is empty or holds a width and a   *)
(* height that are both greater than zero.                                 *)
(***************************************************************************)
C17_CachedResolutionPositive ==
    \/ cachedScreenResolution = Null
    \/ /\ cachedScreenResolution[1].width > 0
       /\ cachedScreenResolution[1].height > 0

(***************************************************************************)
(* Vocabulary of the flattening properties: the document a call parsed,    *)
(* its nodes by path, and where a node's record stands in the result.      *)
(***************************************************************************)
\* Caller c's getScreenHierarchy returns a freshly flattened hierarchy.
Flattens(c) ==
    /\ calls[c].op = "getScreenHierarchy"
    /\ calls[c].pc = "awaitParse"
    /\ calls'[c].pc = "returned"
    /\ calls'[c].result.kind = "hierarchy"

RECURSIVE PathsIn(_)
PathsIn(node) ==
    {<<>>} \cup UNION {{<<i>> \o path : path \in PathsIn(node.kids[i])} :
                       i \in DOMAIN node.kids}

RECURSIVE NodeAt(_, _)
NodeAt(node, path) ==
    IF path = <<>> THEN node ELSE NodeAt(node.kids[Head(path)], Tail(path))

\* The nodes that carry attributes, and those of them below the root.
Carrying(root) == {path \in PathsIn(root) : DOMAIN NodeAt(root, path).attrs /= {}}
CarryingBelowRoot(root) == Carrying(root) \ {<<>>}

\* The places of the result whose record bears the id of the node at path.
PositionsOf(out, root, path) ==
    {i \in DOMAIN out :
        "id" \in DOMAIN out[i] /\ out[i].id = Str(NodeAt(root, path).attrs.id)}

\* q is a descendant of p.
IsAncestor(p, q) == Len(p) < Len(q) /\ SubSeq(q, 1, Len(p)) = p

\* p and q lie in the subtrees of two children of one node, p in the
\* subtree of the earlier child.
InEarlierSubtree(p, q) ==
    \E k \in 1..Len(p) :
        /\ k <= Len(q)
        /\ SubSeq(p, 1, k - 1) = SubSeq(q, 1, k - 1)
        /\ p[k] < q[k]

\* The record the stated coercion makes of a node's attributes.
RecordOf(attrs) ==
    [key \in DOMAIN attrs |->
        IF attrs[key] = "true" THEN Bool("true")
        ELSE IF attrs[key] = "false" THEN Bool("false")
        ELSE Str(attrs[key])]

(***************************************************************************)
(* C18.  The flattened hierarchy is in pre-order: every node below the     *)
(* root that carries attributes has exactly one record; the record of a    *)
(* node stands before the records of all its descendants, and the records  *)
(* of a child's subtree stand before those of every later sibling's.       *)
(***************************************************************************)
C18_FlattenIsPreOrder ==
    [][\A c \in Callers :
         Flattens(c) =>
            LET out == calls'[c].result.val
                root == calls[c].hierarchyXML[1].root
                nodes == CarryingBelowRoot(root)
            IN  /\ \A p \in nodes : Cardinality(PositionsOf(out, root, p)) = 1
                /\ \A p \in nodes, q \in nodes :
                      (IsAncestor(p, q) \/ InEarlierSubtree(p, q)) =>
                         \A i \in PositionsOf(out, root, p),
                            j \in PositionsOf(out, root, q) : i < j]_vars

\* A child, its own child, then the child's later sibling.
C18_Witness ==
    /\ calls[1].op = "getScreenHierarchy" /\ calls[1].pc = "returned"
    /\ calls[1].cmds = 1
    /\ calls[1].result.kind = "hierarchy"
    /\ Len(calls[1].result.val) = 3
    /\ calls[1].result.val[1].id = Str("<<1>>")
    /\ calls[1].result.val[2].id = Str("<<1, 1>>")
    /\ calls[1].result.val[3].id = Str("<<2>>")

(***************************************************************************)
(* C19.  The record of a node has exactly the node's attribute keys; an    *)
(* attribute whose text is the literal "true" or "false" becomes that      *)
(* boolean and every other text, "True", "1" and the empty text included,  *)
(* stays the same string.                                                  *)
(***************************************************************************)
C19_OnlyLiteralsBecomeBooleans ==
    [][\A c \in Callers :
         Flattens(c) =>
            LET out == calls'[c].result.val
                root == calls[c].hierarchyXML[1].root
            IN  /\ \A p \in CarryingBelowRoot(root) :
                      \E i \in DOMAIN out : out[i] = RecordOf(NodeAt(root, p).attrs)
                /\ \A i \in DOMAIN out :
                      \E p \in Carrying(root) : out[i] = RecordOf(NodeAt(root, p).attrs)]_vars

\* A hierarchy with a boolean made of "true" and the strings "True" and "1".
C19_Witness ==
    /\ calls[1].op = "getScreenHierarchy" /\ calls[1].pc = "returned"
    /\ calls[1].cmds = 1
    /\ calls[1].result.kind = "hierarchy"
    /\ \E i, j, k \in DOMAIN calls[1].result.val :
          /\ calls[1].result.val[i].checked = Bool("true")
          /\ calls[1].result.val[j].checked = Str("True")
          /\ calls[1].result.val[k].checked = Str("1")
          /\ DOMAIN calls[1].result.val[j] = {"id", "checked"}

(***************************************************************************)
(* C20.  As stated: the root of the document contributes no record, so the *)
(* flattened hierarchy has one record for each node below the root that    *)
(* carries attributes and no other.                                        *)
(***************************************************************************)
C20_RootContributesNoRecord ==
    [][\A c \in Callers :
         Flattens(c) =>
            LET out == calls'[c].result.val
                root == calls[c].hierarchyXML[1].root
            IN  /\ Len(out) = Cardinality(CarryingBelowRoot(root))
                /\ DOMAIN root.attrs /= {} =>
                      \A i \in DOMAIN out : out[i] /= RecordOf(root.attrs)]_vars

(***************************************************************************)
(* Vocabulary of the attribute-flag properties.                            *)
(***************************************************************************)
\* An attribute-flag query is made in this step.
Queries == query' /= query

\* The flag a record gives for an attribute that it carries as a boolean.
FlagOf(record, attribute) == IF record[attribute] = TRUEV THEN "true" ELSE "false"
CarriesFlag(record, attribute) ==
    attribute \in DOMAIN record /\ record[attribute] \in {TRUEV, FALSEV}

(***************************************************************************)
(* C21.  As stated: a query given a non-empty record that carries the      *)
(* attribute as a boolean returns that boolean, whatever the Element Cache *)
(* holds, and so also when it is empty.                                    *)
(***************************************************************************)
C21_ExplicitRecordWins ==
    [][(/\ Queries
        /\ query'.element /= Null
        /\ CarriesFlag(query'.element[1], query'.attribute)) =>
           query'.result = FlagOf(query'.element[1], query'.attribute)]_vars

(***************************************************************************)
(* C22.  As stated: a query given no record, made when findElement has     *)
(* cached an element that carries the attribute as a boolean, returns that *)
(* boolean.                                                                *)
(***************************************************************************)
C22_QueryUsesElementCache ==
    [][(/\ Queries
        /\ query'.element = Null
        /\ cachedElement /= Null
        /\ CarriesFlag(cachedElement[1], query'.attribute)) =>
           query'.result = FlagOf(cachedElement[1], query'.attribute)]_vars

DecidedBy(before, after, h, e, r) ==
    (Settled(before) /\ after /= before) =>
        IF after.op = "getScreenHierarchy"
        THEN IF HierarchyCacheHit(h)
             THEN after.pc = "returned" /\ after.cmds = 0 /\ after.result.val = h[1]
             ELSE after.pc = "awaitExec" /\ after.cmds = 1
        ELSE IF after.op = "getScreenResolution"
        THEN IF ResolutionCacheHit(r)
             THEN after.pc = "returned" /\ after.cmds = 0 /\ after.result.val = r[1]
             ELSE after.pc = "awaitSize" /\ after.cmds = 1
        ELSE IF ElementCacheHit(e)
        THEN after.pc = "returned" /\ after.cmds = 0 /\ after.result.val = e[1]
        ELSE IF HierarchyGiven(after.screenHierarchyJSON)
        THEN after.pc = "returned" /\ after.cmds = 0
        ELSE IF HierarchyCacheHit(h)
        THEN after.pc = "awaitHierarchy" /\ after.cmds = 0 /\ after.elements = h
        ELSE after.pc = "awaitExec" /\ after.cmds = 1

(***************************************************************************)
(* C24.  The three slots belong to one Screen object.  Of two objects for  *)
(* two devices, a step of a call on one leaves the other's three slots as  *)
(* they are, and whether a call is answered from a slot or sends its       *)
(* command is decided by the slots of the object it was called on alone.   *)
(***************************************************************************)
C24_SlotsBelongToOneInstance ==
    [][ /\ other' /= other =>
              UNCHANGED <<cachedScreenHierarchy, cachedElement, cachedScreenResolution>>
        /\ calls' /= calls =>
              /\ other'.cachedScreenHierarchy = other.cachedScreenHierarchy
              /\ other'.cachedElement = other.cachedElement
              /\ other'.cachedScreenResolution = other.cachedScreenResolution
        /\ DecidedBy(other.call, other'.call, other.cachedScreenHierarchy,
                     other.cachedElement, other.cachedScreenResolution)
        /\ \A c \in Callers :
              DecidedBy(calls[c], calls'[c], cachedScreenHierarchy,
                        cachedElement, cachedScreenResolution) ]_vars

\* Each object has sent its own command for what the other already holds:
\* the second its dump while the first has a hierarchy cached, the first
\* its size query while the second has a resolution cached.
C24_Witness ==
    /\ cachedScreenHierarchy /= Null /\ other.cachedScreenHierarchy = Null
    /\ other.call.op = "getScreenHierarchy" /\ other.call.pc = "awaitExec"
    /\ other.call.cmds = 1
    /\ other.cachedScreenResolution /= Null /\ cachedScreenResolution = Null
    /\ calls[1].op = "getScreenResolution" /\ calls[1].pc = "awaitSize"

(***************************************************************************)
(* C25.  As stated: a getScreenHierarchy call that was given an output     *)
(* path and has returned has written the file, the markup for XML and the  *)
(* flattened hierarchy for JSON, also when it found the cache populated.   *)
(***************************************************************************)
C25_OutputWrittenWhenPathGiven ==
    \A c \in Callers :
        (/\ calls[c].op = "getScreenHierarchy"
         /\ calls[c].pc = "returned"
         /\ calls[c].outputFilePath /= Null) =>
            calls[c].wrote = (IF calls[c].outputFormat = "XML" THEN "xml" ELSE "json")

(***************************************************************************)
(* C26.  As stated: the Element Cache is written only while it is empty,   *)
(* so a cached element is never replaced, also when several findElement    *)
(* calls are in flight.                                                    *)
(***************************************************************************)
C26_ElementWrittenOnlyWhenEmpty ==
    [][cachedElement /= Null => cachedElement' = cachedElement]_vars

(***************************************************************************)
(* C29.  A getScreenHierarchy call that asks for XML and finds the         *)
(* Hierarchy Cache populated returns the cached flattened hierarchy, not   *)
(* markup, and sends no command.                                           *)
(***************************************************************************)
C29_CacheCheckBeforeFormat ==
    [][\A c \in Callers :
         (/\ Enters(c, "getScreenHierarchy")
          /\ calls'[c].outputFormat = "XML"
          /\ cachedScreenHierarchy /= Null) =>
            /\ calls'[c].pc = "returned"
            /\ calls'[c].result.kind = "hierarchy"
            /\ calls'[c].result.val = cachedScreenHierarchy[1]
            /\ calls'[c].cmds = 0
            /\ cachedScreenHierarchy' = cachedScreenHierarchy]_vars

\* An XML call answered with the hierarchy of ScreenA from the cache.
C29_Witness ==
    /\ calls[1].op = "getScreenHierarchy" /\ calls[1].pc = "returned"
    /\ calls[1].outputFormat = "XML"
    /\ calls[1].cmds = 0
    /\ calls[1].result = Flatten(ScreenA)
    /\ cachedScreenHierarchy = Some(Flatten(ScreenA).val)

(***************************************************************************)
(* C30.  When a findElement call that was given an attribute list finds a  *)
(* single match, the Element Cache receives the projected record it        *)
(* returns (keys among the listed attributes only), not the match; a later *)
(* findElement call returns that cached record whatever list it gives.     *)
(***************************************************************************)
C30_ProjectedRecordCached ==
    [][\A c \in Callers :
         /\ (/\ Filters(c)
             /\ calls'[c].attributes /= Null
             /\ Len(Satisfying(Filtered(c), calls'[c].conditions)) = 1) =>
               /\ calls'[c].result.kind = "element"
               /\ cachedElement' = Some(calls'[c].result.val)
               /\ ReturnedFor(cachedElement'[1],
                              Satisfying(Filtered(c), calls'[c].conditions)[1],
                              calls'[c].attributes)
         /\ (Enters(c, "findElement") /\ cachedElement /= Null) =>
               /\ calls'[c].result.kind = "element"
               /\ calls'[c].result.val = cachedElement[1]
               /\ cachedElement' = cachedElement]_vars

\* The record cached under the list clickable, text, returned to a call
\* that asked for resourceId and focused.
C30_Witness ==
    /\ cachedElement = Some([clickable |-> TRUEV])
    /\ calls[1].op = "findElement" /\ calls[1].pc = "returned"
    /\ calls[1].attributes = Some(<<"resourceId", "focused">>)
    /\ calls[1].result = [kind |-> "element", val |-> [clickable |-> TRUEV]]

(***************************************************************************)
(* C27.  No step of any call empties a cache slot: a populated Hierarchy,  *)
(* Element or Resolution Cache is populated after every step, whatever the *)
(* interleaving of the calls and whichever of them fail.                   *)
(***************************************************************************)
C27_CachesNeverEmptied ==
    [][/\ cachedScreenHierarchy /= Null => cachedScreenHierarchy' /= Null
       /\ cachedElement /= Null => cachedElement' /= Null
       /\ cachedScreenResolution /= Null => cachedScreenResolution' /= Null]_vars

\* All three slots are populated after a call that was waiting while the
\* resolution was cached got a size text without the pattern.
C27_Witness ==
    /\ cachedScreenHierarchy /= Null
    /\ cachedElement /= Null
    /\ cachedScreenResolution /= Null
    /\ calls[1].op = "findElement" /\ calls[1].pc = "returned" /\ calls[1].cmds = 1
    /\ calls[2].op = "getScreenResolution" /\ calls[2].pc = "returned"
    /\ calls[2].cmds = 1 /\ calls[2].result.kind = "null"

(***************************************************************************)
(* C28.  Where every transport command is eventually answered or rejected  *)
(* and every parse eventually settles, every call that has started         *)
(* eventually returns or fails; no call sends more than one command.       *)
(***************************************************************************)
C28_EveryCallCompletes ==
    /\ \A c \in Callers : [](~Settled(calls[c]) => <>Settled(calls[c]))
    /\ [](\A c \in Callers : calls[c].cmds <= 1)

\* A findElement call that went through the command, the parse and the
\* filter, and a getScreenResolution call whose command was rejected, have
\* both returned after one command each.
C28_Witness ==
    /\ calls[1].op = "findElement" /\ calls[1].pc = "returned" /\ calls[1].cmds = 1
    /\ calls[2].op = "getScreenResolution" /\ calls[2].pc = "returned"
    /\ calls[2].rejected /\ calls[2].cmds = 1

====
